---- MODULE Spec2Model ----
(***************************************************************************)
(* Cura3.ai diagnosis orchestration: the /diagnosis/run pipeline           *)
(* (run_diagnosis_endpoint -> auto_select_specialists -> run_diagnosis ->  *)
(* _run_specialist workers -> _run_team_diagnosis).                        *)
(*                                                                         *)
(* Text is a sequence of tokens.  A token is one character of interest     *)
(* ("{", "}", a unicode character, a newline "NL") or one fixed literal    *)
(* of the source; string concatenation is \o.                              *)
(***************************************************************************)
EXTENDS Integers, Sequences, FiniteSets, TLC, Bags

(* ---------------------------------------------------------------- bounds *)
MaxSubset == 2
MaxRuns == 2

(* ------------------------------------------------------------- registry *)
AVAILABLE_SPECIALISTS ==
    << "Cardiologist", "Psychologist", "Pulmonologist", "Neurologist",
       "Endocrinologist", "Oncologist", "Dermatologist",
       "Gastroenterologist", "Orthopedist", "General Practitioner" >>

Range(s) == { s[i] : i \in DOMAIN s }

SPECIALISTS == Range(AVAILABLE_SPECIALISTS)

(* ------------------------------------------------------- text operators *)
RECURSIVE Flatten(_)
Flatten(ss) == IF ss = << >> THEN << >> ELSE Head(ss) \o Flatten(Tail(ss))

IsPrefix(p, s) == Len(p) <= Len(s) /\ SubSeq(s, 1, Len(p)) = p

\* str.replace(old, new): every non-overlapping occurrence, left to right
RECURSIVE Replace(_, _, _)
Replace(s, old, new) ==
    IF s = << >> THEN << >>
    ELSE IF IsPrefix(old, s)
         THEN new \o Replace(SubSeq(s, Len(old) + 1, Len(s)), old, new)
         ELSE << Head(s) >> \o Replace(Tail(s), old, new)

\* s contains t as a contiguous run starting at offset p (1-based)
OccursAt(t, s, p) ==
    /\ p >= 1
    /\ p + Len(t) - 1 <= Len(s)
    /\ SubSeq(s, p, p + Len(t) - 1) = t

replacements ==
    [ c \in { "U+2018", "U+2019", "U+201C", "U+201D", "U+2013", "U+2014",
              "U+2026", "U+2022", "U+00B7", "U+2023", "U+25CF", "U+25CB",
              "U+2192" } |->
        CASE c \in { "U+2018", "U+2019" } -> << "'" >>
          [] c \in { "U+201C", "U+201D" } -> << "dquote" >>
          [] c = "U+2013" -> << "-" >>
          [] c = "U+2014" -> << "-", "-" >>
          [] c = "U+2026" -> << ".", ".", "." >>
          [] c = "U+2192" -> << "-", ">" >>
          [] OTHER -> << "-" >> ]

_sanitize_text(text) ==
    Flatten([ i \in 1..Len(text) |->
                IF text[i] \in DOMAIN replacements
                THEN replacements[text[i]] ELSE << text[i] >> ])

(* ------------------------------------------------- Remote Call Port I/O *)
\* what one model.invoke(...) does: returns response.content or raises e
Returned(text) == [ok |-> TRUE, text |-> text]
Raised(cause) == [ok |-> FALSE, text |-> cause]

ErrorPrefix == << "Error: Could not generate report. " >>
TeamErrorPrefix == << "Error generating final diagnosis: " >>

\* texts the stubbed model answers with, and str(e) of the errors it raises
Responses ==
    { << "findings" >>,
      << "see", "{", "U+2014", "}" >>,
      ErrorPrefix \o << "timeout" >> }
Causes == { << "timeout" >> }
Outcomes == { Returned(t) : t \in Responses } \cup { Raised(c) : c \in Causes }

(* ------------------------------------------------------ agent_engine.py *)
\* variant: the except branch returns str(e) without the placeholder prefix
_run_specialist_unprefixed(specialist_name, outcome) ==
    [specialist_name |-> specialist_name,
     report_content |-> IF outcome.ok THEN _sanitize_text(outcome.text)
                        ELSE outcome.text]

\* variant: the except branch swallows the error into an empty report
_run_specialist_swallow(specialist_name, outcome) ==
    [specialist_name |-> specialist_name,
     report_content |-> IF outcome.ok THEN _sanitize_text(outcome.text)
                        ELSE << >>]

\* the dict _run_specialist returns once model.invoke has returned/raised
_run_specialist(specialist_name, outcome) ==
    IF outcome.ok
    THEN [specialist_name |-> specialist_name,
          report_content |-> _sanitize_text(outcome.text)]
    ELSE [specialist_name |-> specialist_name,
          report_content |-> ErrorPrefix \o outcome.text]

TEAM_PROMPT_TEMPLATE ==
    << "NL", "TEAM_PROMPT_BODY", "NL",
       "{", "specialist_reports_section", "}", "NL" >>

\* content = report["report_content"].replace("{", "{{").replace("}", "}}")
escape_braces(content) ==
    Replace(Replace(content, << "{" >>, << "{", "{" >>),
            << "}" >>, << "}", "}" >>)

\* one pass of the loop body: f"\n{name} Report:\n{content}\n"
report_block(report) ==
    << "NL", report.specialist_name, " Report:", "NL" >>
        \o escape_braces(report.report_content) \o << "NL" >>

reports_section(specialist_reports) ==
    Flatten([ i \in 1..Len(specialist_reports) |->
                report_block(specialist_reports[i]) ])

\* variant: the placeholder is substituted in a second pass over the result
team_prompt_text_twice(specialist_reports) ==
    Replace(Replace(TEAM_PROMPT_TEMPLATE,
                    << "{", "specialist_reports_section", "}" >>,
                    reports_section(specialist_reports)),
            << "{", "specialist_reports_section", "}" >>,
            reports_section(specialist_reports))

\* prompt_text = TEAM_PROMPT_TEMPLATE.replace("{specialist_reports_section}", ...)
team_prompt_text(specialist_reports) ==
    Replace(TEAM_PROMPT_TEMPLATE,
            << "{", "specialist_reports_section", "}" >>,
            reports_section(specialist_reports))

\* the string _run_team_diagnosis returns once model.invoke returned/raised
_run_team_diagnosis(outcome) ==
    IF outcome.ok
    THEN _sanitize_text(outcome.text)
    ELSE TeamErrorPrefix \o outcome.text

\* variant: results of failed workers are filtered out of the list
gather_drop_errors(futs, order) ==
    SelectSeq([ i \in 1..Len(futs) |-> futs[i].result ],
              LAMBDA r : ~IsPrefix(ErrorPrefix, r.report_content))

\* variant: results are collected as they complete
gather_as_completed(futs, order) ==
    [ i \in 1..Len(order) |-> futs[order[i]].result ]

\* asyncio.gather(*futures): results in the order of the awaitables passed
\* (completion order is known to the event loop but plays no part)
gather(futs, order) ==
    [ i \in 1..Len(futs) |-> futs[i].result ]

\* variant: the wait returns on the first completed future
first_done(futs) == \E i \in DOMAIN futs : futs[i].state # "pending"

\* the join barrier: gather resumes once every future is done
all_done(futs) == \A i \in DOMAIN futs : futs[i].state # "pending"

\* variant: a failed synthesis discards the collected reports
run_diagnosis_result_discard(specialist_reports, final) ==
    [specialist_reports |-> IF IsPrefix(TeamErrorPrefix, final)
                            THEN << >> ELSE specialist_reports,
     final_diagnosis |-> final]

\* the dict run_diagnosis returns
run_diagnosis_result(specialist_reports, final) ==
    [specialist_reports |-> specialist_reports, final_diagnosis |-> final]

(* ------------------------------------------------ specialist_selector.py *)
\* One element of a selector response: a piece of markup/whitespace/prose
\* (k = "tok"), or one complete JSON document (k = its JSON type) with
\* v = the strings iteration over the parsed value yields
Tok(t) == [k |-> "tok", v |-> << t >>]
JsonArray(items) == [k |-> "array", v |-> items]
JsonString(chars) == [k |-> "string", v |-> chars]
JsonObject(keys) == [k |-> "object", v |-> keys]
JsonNumber == [k |-> "number", v |-> << >>]

\* the three-backtick markdown code fence
Fence == Tok("FENCE")

Whitespace == { Tok("NL"), Tok(" ") }

RECURSIVE lstrip(_)
lstrip(c) == IF c # << >> /\ Head(c) \in Whitespace THEN lstrip(Tail(c)) ELSE c

RECURSIVE rstrip(_)
rstrip(c) ==
    IF c # << >> /\ c[Len(c)] \in Whitespace
    THEN rstrip(SubSeq(c, 1, Len(c) - 1)) ELSE c

strip(c) == rstrip(lstrip(c))

startswith(c, t) == c # << >> /\ Head(c) = t

\* content.split("\n", 1)[-1]
after_first_newline(c) ==
    IF \E i \in DOMAIN c : c[i] = Tok("NL")
    THEN LET i == CHOOSE j \in DOMAIN c :
                    /\ c[j] = Tok("NL")
                    /\ \A h \in 1..(j - 1) : c[h] # Tok("NL")
         IN SubSeq(c, i + 1, Len(c))
    ELSE c

\* content.rsplit(fence, 1)[0]
before_last_fence(c) ==
    IF \E i \in DOMAIN c : c[i] = Fence
    THEN LET i == CHOOSE j \in DOMAIN c :
                    /\ c[j] = Fence
                    /\ \A h \in (j + 1)..Len(c) : c[h] # Fence
         IN SubSeq(c, 1, i - 1)
    ELSE c

\* lines 66-69: strip, then remove markdown code fences if present
unfence(content) ==
    LET c == strip(content)
    IN IF startswith(c, Fence)
       THEN strip(before_last_fence(after_first_newline(c)))
       ELSE c

JsonKinds == { "array", "string", "object", "number" }

\* json.loads(content) returns a value iff content is one JSON document,
\* surrounding whitespace allowed; otherwise it raises
json_loads_ok(content) ==
    LET c == strip(content) IN Len(c) = 1 /\ c[1].k \in JsonKinds

json_loads(content) == strip(content)[1]

\* "for s in selected" raises TypeError on a value that is not iterable
iterable(selected) == selected.k \in { "array", "string", "object" }

SelectSeqIn(s, S) == SelectSeq(s, LAMBDA x : x \in S)

FallbackSpecialists == << "Cardiologist", "Psychologist", "Pulmonologist" >>

MaxSelected == 5
MinValid == 2

\* variant: the registry filter is missing
post_process_unfiltered(selected) ==
    LET valid == selected.v
        padded == IF Len(valid) < MinValid
                     /\ "General Practitioner" \notin Range(valid)
                  THEN Append(valid, "General Practitioner")
                  ELSE valid
    IN SubSeq(padded, 1, IF Len(padded) < MaxSelected
                         THEN Len(padded) ELSE MaxSelected)

\* variant: the default is appended below 3 names instead of below 2
post_process_pad3(selected) ==
    LET valid == SelectSeqIn(selected.v, SPECIALISTS)
        padded == IF Len(valid) < MinValid + 1
                     /\ "General Practitioner" \notin Range(valid)
                  THEN Append(valid, "General Practitioner")
                  ELSE valid
    IN SubSeq(padded, 1, IF Len(padded) < MaxSelected
                         THEN Len(padded) ELSE MaxSelected)

\* variant: the cap keeps the last 5 names (valid[-5:])
post_process_last5(selected) ==
    LET valid == SelectSeqIn(selected.v, SPECIALISTS)
        padded == IF Len(valid) < MinValid
                     /\ "General Practitioner" \notin Range(valid)
                  THEN Append(valid, "General Practitioner")
                  ELSE valid
    IN SubSeq(padded,
              IF Len(padded) < MaxSelected THEN 1
              ELSE Len(padded) - MaxSelected + 1,
              Len(padded))

\* lines 73-81: filter, pad with General Practitioner, cap at 5
post_process(selected) ==
    LET valid == SelectSeqIn(selected.v, SPECIALISTS)
        padded == IF Len(valid) < MinValid
                     /\ "General Practitioner" \notin Range(valid)
                  THEN Append(valid, "General Practitioner")
                  ELSE valid
    IN SubSeq(padded, 1, IF Len(padded) < MaxSelected
                         THEN Len(padded) ELSE MaxSelected)

\* variant: the except branch returns an empty list
auto_select_specialists_no_fallback(outcome) ==
    IF /\ outcome.ok
       /\ json_loads_ok(unfence(outcome.text))
       /\ iterable(json_loads(unfence(outcome.text)))
    THEN post_process(json_loads(unfence(outcome.text)))
    ELSE << >>

\* what auto_select_specialists returns once model.invoke returned/raised
auto_select_specialists(outcome) ==
    IF /\ outcome.ok
       /\ json_loads_ok(unfence(outcome.text))
       /\ iterable(json_loads(unfence(outcome.text)))
    THEN post_process(json_loads(unfence(outcome.text)))
    ELSE FallbackSpecialists

(* ------------------------------------------- chat.py, chat_service.py *)
\* sep.join(parts)
RECURSIVE Join(_, _)
Join(parts, sep) ==
    IF parts = << >> THEN << >>
    ELSE IF Len(parts) = 1 THEN Head(parts)
    ELSE Head(parts) \o sep \o Join(Tail(parts), sep)

\* variant: the final diagnosis is put before the specialist reports
build_context_final_first(doc) ==
    Join(<< << "NL", "Final Diagnosis:", "NL" >> \o doc.final_diagnosis >>
         \o [ i \in 1..Len(doc.specialist_reports) |->
                << doc.specialist_reports[i].specialist_name, " Report:", "NL" >>
                    \o doc.specialist_reports[i].report_content ],
         << "NL", "NL" >>)

\* send_message lines 36-41: one part per specialist report, then the final
\* diagnosis, joined by blank lines
build_context(doc) ==
    Join([ i \in 1..Len(doc.specialist_reports) |->
             << doc.specialist_reports[i].specialist_name, " Report:", "NL" >>
                 \o doc.specialist_reports[i].report_content ]
         \o << << "NL", "Final Diagnosis:", "NL" >> \o doc.final_diagnosis >>,
         << "NL", "NL" >>)

CHAT_SYSTEM_PROMPT ==
    << "NL", "CHAT_PROMPT_HEAD", "NL", "{", "diagnosis_context", "}", "NL",
       "CHAT_PROMPT_RULES", "NL" >>

\* CHAT_SYSTEM_PROMPT.format(diagnosis_context=diagnosis_context)
system_prompt(diagnosis_context) ==
    Replace(CHAT_SYSTEM_PROMPT, << "{", "diagnosis_context", "}" >>,
            diagnosis_context)

HistoryWindow == 10

\* variant: the slice keeps the first 10 messages (chat_history[:10])
last_turns_first10(chat_history) ==
    SubSeq(chat_history, 1,
           IF Len(chat_history) < HistoryWindow THEN Len(chat_history)
           ELSE HistoryWindow)

\* chat_history[-10:]
last_turns(chat_history) ==
    SubSeq(chat_history,
           IF Len(chat_history) < HistoryWindow THEN 1
           ELSE Len(chat_history) - HistoryWindow + 1,
           Len(chat_history))

UserTurn(content) == [role |-> "user", content |-> content]
AssistantTurn(content) == [role |-> "assistant", content |-> content]

role_label(role) == IF role = "user" THEN "Patient" ELSE "Cura3.ai"

\* generate_chat_response lines 45-69: the single prompt sent to the model
combined_prompt(diagnosis_context, chat_history, user_message) ==
    LET messages == last_turns(chat_history) \o << UserTurn(user_message) >>
    IN system_prompt(diagnosis_context) \o << "NL", "NL" >>
       \o Flatten([ i \in 1..Len(messages) |->
                      << role_label(messages[i].role), ":", " " >>
                          \o messages[i].content \o << "NL", "NL" >> ])
       \o << "Cura3.ai", ":" >>

Blank == { "NL", " " }

RECURSIVE text_lstrip(_)
text_lstrip(t) ==
    IF t # << >> /\ Head(t) \in Blank THEN text_lstrip(Tail(t)) ELSE t

RECURSIVE text_rstrip(_)
text_rstrip(t) ==
    IF t # << >> /\ t[Len(t)] \in Blank
    THEN text_rstrip(SubSeq(t, 1, Len(t) - 1)) ELSE t

\* str(content).strip()
text_strip(t) == text_rstrip(text_lstrip(t))

ApologyPrefix ==
    << "I apologize, but I encountered an error processing your question. Please try again. (Error: " >>

\* variant: the except branch returns the bare error text
chat_answer_bare(outcome) ==
    IF outcome.ok THEN text_strip(outcome.text) ELSE outcome.text

\* what generate_chat_response returns once model.invoke returned/raised
chat_answer(outcome) ==
    IF outcome.ok
    THEN text_strip(outcome.text)
    ELSE ApologyPrefix \o outcome.text \o << ")" >>

\* update_one with $push $each [user_msg, assistant_msg]: one atomic append
\* to the messages stored at that moment
push_turns(stored, chat_history, user_msg, assistant_msg) ==
    stored \o << user_msg, assistant_msg >>

(* ---------------------------------------------------------------- inputs *)
RequestNames == { "Cardiologist", "General Practitioner", "Astrologer" }

RECURSIVE SeqsUpTo(_, _)
SeqsUpTo(S, n) ==
    IF n = 0 THEN { << >> }
    ELSE LET shorter == SeqsUpTo(S, n - 1)
         IN shorter \cup { Append(q, x) : q \in shorter, x \in S }

\* DiagnosisRequest: selected_specialists is None (given = FALSE) or a list;
\* lookup is what db.reports.find_one does for report_id and the caller
Requests ==
    { [lookup |-> "found", given |-> TRUE, names |-> q] :
          q \in SeqsUpTo(RequestNames, MaxSubset) }
    \cup { [lookup |-> l, given |-> FALSE, names |-> << >>] :
          l \in { "found", "missing", "bad_id" } }

SelectorOutcomes ==
    { Returned(<< JsonArray(<< >>) >>),
      Returned(<< JsonArray(<< "Cardiologist", "Cardiologist" >>) >>),
      Returned(<< Fence, Tok("json"), Tok("NL"),
                  JsonArray(<< "Astrologer", "Psychologist" >>),
                  Tok("NL"), Fence >>),
      Returned(<< Tok("I cannot help with that") >>),
      Returned(<< JsonNumber >>),
      Raised(<< Tok("timeout") >>) }

\* names a selector response may list, and the longest list enumerated
SelNames == { "Cardiologist", "Psychologist", "General Practitioner",
              "Astrologer" }
MaxArray == 3

\* JSON documents the model may answer with: every short list over
\* SelNames, lists longer than the cap, and JSON that is not a list
SelectorDocs ==
    { JsonArray(q) : q \in SeqsUpTo(SelNames, MaxArray) }
    \cup { JsonArray(SubSeq(AVAILABLE_SPECIALISTS, 1, n)) : n \in 5..7 }
    \cup { JsonArray(<< "Astrologer" >> \o SubSeq(AVAILABLE_SPECIALISTS, 4, 10)),
           JsonString(<< "C", "a", "r" >>),
           JsonObject(<< "Cardiologist", "Astrologer" >>),
           JsonNumber }

\* the text around the document: none, blanks, a code fence with and
\* without its line break, prose
Wrappings(doc) ==
    { << doc >>,
      << Tok(" "), doc, Tok("NL") >>,
      << Fence, Tok("json"), Tok("NL"), doc, Tok("NL"), Fence >>,
      << Fence, Tok("NL"), doc, Fence >>,
      << Fence, doc, Fence >>,
      << Tok("Here are the specialists:"), Tok("NL"), doc >> }

SelectorInputs ==
    { Returned(c) : c \in UNION { Wrappings(doc) : doc \in SelectorDocs } }
    \cup { Returned(<< Tok("I cannot help with that") >>),
           Returned(<< >>),
           Raised(<< Tok("timeout") >>) }

(* ----------------------------------------------------------------- state *)
VARIABLES
    pc,                   \* where the /diagnosis/run handler is
    runs,                 \* requests handled so far
    request,              \* the DiagnosisRequest being handled
    selected_specialists, \* the handler's local of that name
    selectorCalls,        \* model.invoke calls made by auto_select_specialists
    worker,               \* worker[i]: position of thread i of the pool
    futures,              \* futures[i]: the asyncio future of worker i
    calls,                \* calls[i]: model.invoke calls made by worker i
    remote,               \* remote[i]: what worker i's model.invoke did
    completed,            \* worker indices in the order they finished
    specialist_reports,   \* run_diagnosis's local of that name
    prompt_text,          \* the directive _run_team_diagnosis sends
    teamCalls,            \* invocations of _run_team_diagnosis
    teamInvokes,          \* model.invoke calls it made
    teamRemote,           \* what its model.invoke did
    result,               \* what run_diagnosis returned
    http,                 \* the handler's response: status code and detail
    selectorRemote,       \* what auto_select_specialists' model.invoke did
    previous,             \* inputs, port answers and result of an earlier run
    diagnosis,            \* the db.diagnoses document the chat is about
    chat_sessions,        \* db.chat_sessions documents of that diagnosis
    asked,                \* send_message requests received so far
    chat,                 \* chat[h]: locals of send_message handler h
    _requests,            \* RateLimiter._requests: key -> admission times
    now,                  \* time.time(), in seconds
    admitted,             \* per client, the bag of its admission times
    response,             \* what RateLimitMiddleware.dispatch answered last
    db_reports,           \* the documents of db.reports
    db_diagnoses,         \* the documents of db.diagnoses
    db_chat_sessions,     \* the documents of db.chat_sessions
    inserted,             \* per collection, the documents inserted so far
    inflight,             \* per user, the handler suspended between two awaits
    access                \* the last database access: who asked, whose documents

limiterVars == << _requests, now, admitted, response >>

\* the three collections with their users' handlers
storeVars == << db_reports, db_diagnoses, db_chat_sessions, inserted,
               inflight, access >>

\* the variables of the middleware and of the collections, which the
\* /diagnosis/run pipeline and the conversation of one diagnosis leave alone
otherVars == << limiterVars, storeVars >>

\* the variables the /diagnosis/run handler leaves alone
chatVars == << diagnosis, chat_sessions, asked, chat, otherVars >>

\* the variables of the /diagnosis/run and /chat handlers
coreVars == << pc, runs, request, selected_specialists, selectorCalls, worker,
               futures, calls, remote, completed, specialist_reports,
               prompt_text, teamCalls, teamInvokes, teamRemote, result, http,
               selectorRemote, previous, diagnosis, chat_sessions, asked,
               chat >>

vars == << coreVars, otherVars >>

NoOutcome == [ok |-> FALSE, text |-> << >>]
NoReport == [specialist_name |-> "", report_content |-> << >>]
Pending == [state |-> "pending", result |-> NoReport]
Finished(r) == [state |-> "finished", result |-> r]
Excepted == [state |-> "exception", result |-> NoReport]
NoRequest == [lookup |-> "found", given |-> FALSE, names |-> << >>]
NoResult == run_diagnosis_result(<< >>, << >>)
NoResponse == [status |-> 0, detail |-> ""]

\* no earlier run is remembered
NoPrevious ==
    [valid |-> FALSE, names |-> << >>, remote |-> << >>, completed |-> << >>,
     teamRemote |-> NoOutcome, result |-> NoResult]

NoDiagnosis == NoResult

\* concurrent send_message handlers on the one conversation
MaxHandlers == 2
Handlers == 1..MaxHandlers

NoChat ==
    [pc |-> "idle", message |-> << >>, context |-> << >>, session |-> 0,
     history |-> << >>, prompt |-> << >>, remote |-> NoOutcome,
     answer |-> << >>, status |-> 0]

\* no send_message request has been received, no session is stored
ChatIdle ==
    /\ chat_sessions = << >>
    /\ asked = 0
    /\ chat = [h \in Handlers |-> NoChat]

\* the state of a handler that has not started: every local is unset
Fresh ==
    /\ request = NoRequest
    /\ selected_specialists = << >>
    /\ selectorCalls = 0
    /\ worker = << >>
    /\ futures = << >>
    /\ calls = << >>
    /\ remote = << >>
    /\ completed = << >>
    /\ specialist_reports = << >>
    /\ prompt_text = << >>
    /\ teamCalls = 0
    /\ teamInvokes = 0
    /\ teamRemote = NoOutcome
    /\ result = NoResult
    /\ http = NoResponse
    /\ selectorRemote = NoOutcome

\* RateLimiter.__init__: no key has been seen; no request answered yet
NoAnswer == [who |-> "", key |-> << >>, status |-> 0, remaining |-> 0]

LimiterIdle ==
    /\ _requests = << >>
    /\ now = 0
    /\ admitted = << >>
    /\ response = NoAnswer

\* the users that sign in
Users == { "u1", "u2" }

NoCall == [op |-> "none", id |-> 0]
NoAccess == [caller |-> "", op |-> "none", id |-> 0, owners |-> { },
             status |-> 0]

\* empty collections, no request made yet
StoreIdle ==
    /\ db_reports = { }
    /\ db_diagnoses = { }
    /\ db_chat_sessions = { }
    /\ inserted = [reports |-> 0, diagnoses |-> 0, chat_sessions |-> 0]
    /\ inflight = [u \in Users |-> NoCall]
    /\ access = NoAccess

OtherIdle == LimiterIdle /\ StoreIdle

PipelineInit ==
    pc = "idle" /\ runs = 0 /\ Fresh /\ previous = NoPrevious /\ OtherIdle

Init == PipelineInit /\ ChatIdle /\ diagnosis = NoDiagnosis

\* variant: only None counts as "no subset" (an "is None" test)
not_selected_none_only(req) == ~req.given

\* variant: the selector is asked whatever the request holds
not_selected_always(req) == TRUE

\* "if not selected_specialists": None and the empty list are both falsy
not_selected(req) == ~req.given \/ req.names = << >>

\* variant: the registry validation is skipped
invalid_unchecked(names) == << >>

\* invalid = [s for s in selected_specialists if s not in AVAILABLE_SPECIALISTS]
invalid(names) == SelectSeq(names, LAMBDA n : n \notin SPECIALISTS)

\* lines 94-103 of the endpoint and 321-328 of run_diagnosis: validate the
\* names, then create the pool and submit one worker per name
StartRun(names) ==
    /\ selected_specialists' = names
    /\ IF invalid(names) # << >>
       THEN /\ pc' = "rejected"
            /\ http' = [status |-> 400, detail |-> "Invalid specialists"]
            /\ UNCHANGED << worker, futures, calls, remote >>
       ELSE IF Len(names) = 0
       THEN \* ThreadPoolExecutor(max_workers=0) raises ValueError
            /\ pc' = "failed"
            /\ http' = [status |-> 500, detail |-> "ValueError"]
            /\ UNCHANGED << worker, futures, calls, remote >>
       ELSE /\ pc' = "gathering"
            /\ worker' = [i \in 1..Len(names) |-> "submitted"]
            /\ futures' = [i \in 1..Len(names) |-> Pending]
            /\ calls' = [i \in 1..Len(names) |-> 0]
            /\ remote' = [i \in 1..Len(names) |-> NoOutcome]
            /\ UNCHANGED http

\* run_diagnosis_endpoint up to its first remote await
Receive(req) ==
    /\ pc = "idle"
    /\ runs < MaxRuns
    /\ runs' = runs + 1
    /\ request' = req
    /\ UNCHANGED << completed, specialist_reports, prompt_text, teamCalls,
                    teamInvokes, teamRemote, result, selectorRemote,
                    previous, chatVars >>
    /\ IF req.lookup = "bad_id"
       THEN /\ pc' = "rejected"
            /\ http' = [status |-> 400, detail |-> "Invalid report ID."]
            /\ UNCHANGED << selected_specialists, selectorCalls, worker,
                            futures, calls, remote >>
       ELSE IF req.lookup = "missing"
       THEN /\ pc' = "rejected"
            /\ http' = [status |-> 404, detail |-> "Report not found."]
            /\ UNCHANGED << selected_specialists, selectorCalls, worker,
                            futures, calls, remote >>
       ELSE IF not_selected(req)
       THEN /\ pc' = "selecting"
            /\ selectorCalls' = selectorCalls + 1
            /\ UNCHANGED << selected_specialists, worker, futures, calls,
                            remote, http >>
       ELSE /\ StartRun(req.names)
            /\ UNCHANGED selectorCalls

\* auto_select_specialists resumes after model.invoke; the endpoint goes on
SelectorComplete(outcome) ==
    /\ pc = "selecting"
    /\ selectorRemote' = outcome
    /\ StartRun(auto_select_specialists(outcome))
    /\ UNCHANGED << runs, request, selectorCalls, completed,
                    specialist_reports, prompt_text, teamCalls, teamInvokes,
                    teamRemote, result, previous, chatVars >>

\* _run_specialist lines 256-262: look the name up, build the prompt, call
WorkerInvoke(i) ==
    /\ pc = "gathering"
    /\ i \in DOMAIN worker
    /\ worker[i] = "submitted"
    /\ IF selected_specialists[i] \in SPECIALISTS
       THEN /\ worker' = [worker EXCEPT ![i] = "invoking"]
            /\ calls' = [calls EXCEPT ![i] = @ + 1]
            /\ UNCHANGED << futures, completed >>
       ELSE \* SPECIALISTS[specialist_name] raises KeyError outside the try
            /\ worker' = [worker EXCEPT ![i] = "exited"]
            /\ futures' = [futures EXCEPT ![i] = Excepted]
            /\ completed' = Append(completed, i)
            /\ UNCHANGED calls
    /\ UNCHANGED << pc, runs, request, selected_specialists, selectorCalls,
                    remote, specialist_reports, prompt_text, teamCalls,
                    teamInvokes, teamRemote, result, http, selectorRemote,
                    previous, chatVars >>

\* variant: a worker whose call raised is submitted again
worker_after_retry(outcome) == IF outcome.ok THEN "exited" ELSE "submitted"

\* _run_specialist lines 262-277: the try branch and the except branch both
\* return, so the worker ends after its one model.invoke
worker_after(outcome) == "exited"

\* _run_specialist lines 262-277: model.invoke returned or raised
WorkerComplete(i, outcome) ==
    /\ pc = "gathering"
    /\ i \in DOMAIN worker
    /\ worker[i] = "invoking"
    /\ worker' = [worker EXCEPT ![i] = worker_after(outcome)]
    /\ remote' = [remote EXCEPT ![i] = outcome]
    /\ futures' = [futures EXCEPT
                     ![i] = Finished(_run_specialist(selected_specialists[i],
                                                     outcome))]
    /\ completed' = Append(completed, i)
    /\ UNCHANGED << pc, runs, request, selected_specialists, selectorCalls,
                    calls, specialist_reports, prompt_text, teamCalls,
                    teamInvokes, teamRemote, result, http, selectorRemote,
                    previous, chatVars >>

\* run_diagnosis lines 329-334 and _run_team_diagnosis lines 283-295: the
\* await on gather resumes, the executor is shut down, the team agent builds
\* its directive and calls the model
Gather ==
    /\ pc = "gathering"
    /\ all_done(futures)
    /\ IF \E i \in DOMAIN futures : futures[i].state = "exception"
       THEN \* gather re-raises the worker's exception to the handler
            /\ pc' = "failed"
            /\ http' = [status |-> 500, detail |-> "KeyError"]
            /\ UNCHANGED << specialist_reports, prompt_text, teamCalls,
                            teamInvokes >>
       ELSE /\ pc' = "synthesizing"
            /\ specialist_reports' = gather(futures, completed)
            /\ prompt_text' = team_prompt_text(gather(futures, completed))
            /\ teamCalls' = teamCalls + 1
            /\ teamInvokes' = teamInvokes + 1
            /\ UNCHANGED http
    /\ UNCHANGED << runs, request, selected_specialists, selectorCalls,
                    worker, futures, calls, remote, completed, teamRemote,
                    result, selectorRemote, previous, chatVars >>

\* _run_team_diagnosis lines 295-304, run_diagnosis lines 336-339 and the
\* endpoint's answer: model.invoke returned or raised
TeamComplete(outcome) ==
    /\ pc = "synthesizing"
    /\ pc' = "done"
    /\ teamRemote' = outcome
    /\ result' = run_diagnosis_result(specialist_reports,
                                      _run_team_diagnosis(outcome))
    /\ http' = [status |-> 200, detail |-> "completed"]
    /\ UNCHANGED << runs, request, selected_specialists, selectorCalls,
                    worker, futures, calls, remote, completed,
                    specialist_reports, prompt_text, teamCalls, teamInvokes,
                    selectorRemote, previous, chatVars >>

\* the handler has answered; its locals are gone before the next request
Return ==
    /\ pc \in { "done", "rejected", "failed" }
    /\ pc' = "idle"
    /\ request' = NoRequest
    /\ selected_specialists' = << >>
    /\ selectorCalls' = 0
    /\ worker' = << >>
    /\ futures' = << >>
    /\ calls' = << >>
    /\ remote' = << >>
    /\ completed' = << >>
    /\ specialist_reports' = << >>
    /\ prompt_text' = << >>
    /\ teamCalls' = 0
    /\ teamInvokes' = 0
    /\ teamRemote' = NoOutcome
    /\ result' = NoResult
    /\ http' = NoResponse
    /\ selectorRemote' = NoOutcome
    /\ UNCHANGED << runs, previous, chatVars >>

Next ==
    \/ \E req \in Requests : Receive(req)
    \/ \E o \in SelectorOutcomes : SelectorComplete(o)
    \/ \E i \in 1..MaxSelected : WorkerInvoke(i)
    \/ \E i \in 1..MaxSelected, o \in Outcomes : WorkerComplete(i, o)
    \/ Gather
    \/ \E o \in Outcomes : TeamComplete(o)
    \/ Return

Spec == Init /\ [][Next]_vars

\* the selection step of the run on its own, over every enumerated answer
AutoRequests == { req \in Requests : req.lookup = "found" /\ not_selected(req) }

SelNext ==
    \/ \E req \in AutoRequests : Receive(req)
    \/ \E o \in SelectorInputs : SelectorComplete(o)

SelSpec == Init /\ [][SelNext]_vars

(* ---------------------------------------------------- run after run *)
\* requests for two analyzers, in both orders and with a repeated name
IdemRequests ==
    { [lookup |-> "found", given |-> TRUE, names |-> q] :
          q \in { << "Cardiologist", "General Practitioner" >>,
                  << "General Practitioner", "Cardiologist" >>,
                  << "Cardiologist", "Cardiologist" >> } }

\* what the stubbed model does on a call
IdemOutcomes == { Returned(<< "findings" >>), Raised(<< "timeout" >>) }

\* the handler has answered; an observer keeps what the run was asked, what
\* the model answered, the order the workers finished in and the result
ReturnRecord ==
    /\ pc = "done"
    /\ previous' = [valid |-> TRUE,
                    names |-> selected_specialists,
                    remote |-> remote,
                    completed |-> completed,
                    teamRemote |-> teamRemote,
                    result |-> result]
    /\ pc' = "idle"
    /\ request' = NoRequest
    /\ selected_specialists' = << >>
    /\ selectorCalls' = 0
    /\ worker' = << >>
    /\ futures' = << >>
    /\ calls' = << >>
    /\ remote' = << >>
    /\ completed' = << >>
    /\ specialist_reports' = << >>
    /\ prompt_text' = << >>
    /\ teamCalls' = 0
    /\ teamInvokes' = 0
    /\ teamRemote' = NoOutcome
    /\ result' = NoResult
    /\ http' = NoResponse
    /\ selectorRemote' = NoOutcome
    /\ UNCHANGED << runs, chatVars >>

IdemNext ==
    \/ \E req \in IdemRequests : Receive(req)
    \/ \E i \in 1..MaxSelected : WorkerInvoke(i)
    \/ \E i \in 1..MaxSelected, o \in IdemOutcomes : WorkerComplete(i, o)
    \/ Gather
    \/ \E o \in IdemOutcomes : TeamComplete(o)
    \/ Return
    \/ ReturnRecord

IdemSpec == Init /\ [][IdemNext]_vars

(* ------------------------------------------------------ POST /chat/{id} *)
\* the variables the /chat handlers leave alone
pipeVars ==
    << pc, runs, request, selected_specialists, selectorCalls, worker,
       futures, calls, remote, completed, specialist_reports, prompt_text,
       teamCalls, teamInvokes, teamRemote, result, http, selectorRemote,
       previous, otherVars >>

\* send_message requests that reach the model in one behaviour
MaxExchanges == 2

\* the n-th question asked, and what the model answers or raises for it
Questions == << "q1", "q2", "q3", "q4" >>
Answers == << "a1", "a2", "a3", "a4" >>
Errors == << "e1", "e2", "e3", "e4" >>

QuestionNo(message) == CHOOSE n \in DOMAIN Questions : message = << Questions[n] >>

\* the questions on which the stubbed model raises instead of answering
FailingQuestions == { "q1", "q2" }

ChatOutcomes(message) ==
    { Returned(<< "NL", Answers[QuestionNo(message)], " " >>) }
    \cup { Raised(<< Errors[QuestionNo(message)] >>) :
               q \in { x \in FailingQuestions : message = << x >> } }

\* documents POST /diagnosis/run stores: reports of workers that returned
\* or failed, a final diagnosis that was produced or failed
StoredDiagnoses ==
    { run_diagnosis_result(
          << _run_specialist("Cardiologist", Returned(<< "findings" >>)),
             _run_specialist("General Practitioner", Raised(<< "timeout" >>)) >>,
          _run_team_diagnosis(Returned(<< "final", "U+2014", "report" >>))),
      run_diagnosis_result(
          << _run_specialist("Pulmonologist",
                             Returned(<< "see", "{", "U+2014", "}" >>)) >>,
          _run_team_diagnosis(Raised(<< "timeout" >>))) }

\* the conversation stored before the first request: none, or the ten
\* turns of five exchanges completed earlier
PriorQuestions == << "p1", "p2", "p3", "p4", "p5" >>
PriorAnswers == << "r1", "r2", "r3", "r4", "r5" >>

EarlierTurns ==
    Flatten([ n \in DOMAIN PriorQuestions |->
                << UserTurn(<< PriorQuestions[n] >>),
                   AssistantTurn(<< PriorAnswers[n] >>) >> ])

StoredSessions == { << >>, << [messages |-> EarlierTurns] >> }

ChatLookups == { "found", "missing", "bad_id" }

\* db.chat_sessions.find_one: the first stored session of the conversation,
\* 0 when there is none
find_session(sessions) == IF sessions = << >> THEN 0 ELSE 1

\* send_message lines 22-60 (and generate_chat_response up to model.invoke
\* when the session exists): look the diagnosis up, build the context, look
\* the session up
ChatReceive(h, lookup) ==
    /\ chat[h].pc = "idle"
    /\ asked < MaxExchanges
    /\ LET message == << Questions[asked + 1] >>
           context == build_context(diagnosis)
           found == find_session(chat_sessions)
       IN IF lookup = "bad_id"
          THEN /\ chat' = [chat EXCEPT ![h] =
                              [NoChat EXCEPT !.pc = "rejected", !.status = 400]]
               /\ UNCHANGED asked
          ELSE IF lookup = "missing"
          THEN /\ chat' = [chat EXCEPT ![h] =
                              [NoChat EXCEPT !.pc = "rejected", !.status = 404]]
               /\ UNCHANGED asked
          ELSE IF found = 0
          THEN /\ chat' = [chat EXCEPT ![h] =
                              [NoChat EXCEPT !.pc = "creating",
                                             !.message = message,
                                             !.context = context]]
               /\ asked' = asked + 1
          ELSE /\ chat' = [chat EXCEPT ![h] =
                              [NoChat EXCEPT
                                 !.pc = "generating",
                                 !.message = message,
                                 !.context = context,
                                 !.session = found,
                                 !.history = chat_sessions[found].messages,
                                 !.prompt = combined_prompt(context,
                                               chat_sessions[found].messages,
                                               message)]]
               /\ asked' = asked + 1
    /\ UNCHANGED << diagnosis, chat_sessions, pipeVars >>

\* send_message lines 49-60: no session was found, insert a new one
ChatCreate(h) ==
    /\ chat[h].pc = "creating"
    /\ chat_sessions' = Append(chat_sessions, [messages |-> << >>])
    /\ chat' = [chat EXCEPT ![h] =
                   [@ EXCEPT !.pc = "generating",
                             !.session = Len(chat_sessions) + 1,
                             !.history = << >>,
                             !.prompt = combined_prompt(chat[h].context, << >>,
                                                        chat[h].message)]]
    /\ UNCHANGED << diagnosis, asked, pipeVars >>

\* generate_chat_response lines 71-83 and send_message lines 69-86:
\* model.invoke returned or raised, the two turns are pushed, the handler
\* answers
ChatComplete(h, outcome) ==
    /\ chat[h].pc = "generating"
    /\ outcome \in ChatOutcomes(chat[h].message)
    /\ LET answer == chat_answer(outcome)
       IN /\ chat' = [chat EXCEPT ![h] =
                         [@ EXCEPT !.pc = "done", !.remote = outcome,
                                   !.answer = answer, !.status = 200]]
          /\ chat_sessions' =
                [chat_sessions EXCEPT ![chat[h].session] =
                    [messages |-> push_turns(@.messages, chat[h].history,
                                             UserTurn(chat[h].message),
                                             AssistantTurn(answer))]]
    /\ UNCHANGED << diagnosis, asked, pipeVars >>

\* the handler has answered; its locals are gone
ChatReturn(h) ==
    /\ chat[h].pc \in { "done", "rejected" }
    /\ chat' = [chat EXCEPT ![h] = NoChat]
    /\ UNCHANGED << diagnosis, chat_sessions, asked, pipeVars >>

AllChatOutcomes ==
    UNION { ChatOutcomes(<< Questions[n] >>) : n \in DOMAIN Questions }

ChatNext ==
    \/ \E h \in Handlers, l \in ChatLookups : ChatReceive(h, l)
    \/ \E h \in Handlers : ChatCreate(h)
    \/ \E h \in Handlers, o \in AllChatOutcomes : ChatComplete(h, o)
    \/ \E h \in Handlers : ChatReturn(h)

ChatInit ==
    /\ PipelineInit
    /\ diagnosis \in StoredDiagnoses
    /\ chat_sessions \in StoredSessions
    /\ asked = 0
    /\ chat = [h \in Handlers |-> NoChat]

ChatSpec == ChatInit /\ [][ChatNext]_vars

(* ------------------------------------------- reports with template text *)
\* what the analyzers answer: plain text, the placeholder of the team
\* template, unbalanced braces
TemplateTexts ==
    { << "findings" >>,
      << "{", "specialist_reports_section", "}" >>,
      << "}", "text", "{" >> }

TemplateOutcomes ==
    { Returned(t) : t \in TemplateTexts } \cup { Raised(<< "{", "timeout" >>) }

TeamNext ==
    \/ \E req \in IdemRequests : Receive(req)
    \/ \E i \in 1..MaxSelected : WorkerInvoke(i)
    \/ \E i \in 1..MaxSelected, o \in TemplateOutcomes : WorkerComplete(i, o)
    \/ Gather
    \/ \E o \in IdemOutcomes : TeamComplete(o)
    \/ Return

TeamSpec == Init /\ [][TeamNext]_vars

(* --------------------------------------------- runs and chats together *)
\* the options each call site builds its model with; temperature in tenths
\* variant: the analyzers and the team agent sample at 0.7
_get_model_creative == [temperature |-> 7, model |-> "gpt-4.1"]

\* agent_engine._get_model: ChatOpenAI(temperature=0, model="gpt-4.1")
_get_model == [temperature |-> 0, model |-> "gpt-4.1"]

\* auto_select_specialists: ChatOpenAI(temperature=0, model="gpt-4.1")
selector_model == [temperature |-> 0, model |-> "gpt-4.1"]

\* generate_chat_response: ChatOpenAI(temperature=0.3, model="gpt-4.1")
chat_model == [temperature |-> 3, model |-> "gpt-4.1"]

\* the model.invoke calls made so far by the run and the chat requests in
\* progress, each with the options of the model it was made on
PortCalls ==
    { [site |-> "analyzer", options |-> _get_model] :
          i \in { j \in DOMAIN calls : calls[j] >= 1 } }
    \cup { [site |-> "team", options |-> _get_model] : n \in 1..teamInvokes }
    \cup { [site |-> "selector", options |-> selector_model] :
               n \in 1..selectorCalls }
    \cup { [site |-> "chat", options |-> chat_model] :
               h \in { g \in Handlers :
                          chat[g].pc \in { "generating", "done" } } }

\* a request without a subset and one with a single analyzer
PortRequests ==
    { [lookup |-> "found", given |-> FALSE, names |-> << >>],
      [lookup |-> "found", given |-> TRUE, names |-> << "Cardiologist" >>] }

PortSelectorOutcomes == { Returned(<< JsonArray(<< "Cardiologist" >>) >>) }

\* the handler that serves the chat requests arriving during the runs
PortHandlers == { 1 }

PortNext ==
    \/ \E req \in PortRequests : Receive(req)
    \/ \E o \in PortSelectorOutcomes : SelectorComplete(o)
    \/ \E i \in 1..MaxSelected : WorkerInvoke(i)
    \/ \E i \in 1..MaxSelected, o \in IdemOutcomes : WorkerComplete(i, o)
    \/ Gather
    \/ \E o \in IdemOutcomes : TeamComplete(o)
    \/ Return
    \/ \E h \in PortHandlers, l \in ChatLookups : ChatReceive(h, l)
    \/ \E h \in PortHandlers : ChatCreate(h)
    \/ \E h \in PortHandlers, o \in AllChatOutcomes : ChatComplete(h, o)
    \/ \E h \in PortHandlers : ChatReturn(h)

\* nothing received yet, no chat session stored
PortInit == PipelineInit /\ ChatIdle /\ diagnosis \in StoredDiagnoses

PortSpec == PortInit /\ [][PortNext]_vars

(* ----------------------------------------------------- rate limiting *)
\* app.add_middleware(RateLimitMiddleware, max_requests=60, window_seconds=60)
max_requests == 60
window_seconds == 60

\* auth[:50]
KeyLength == 50

\* the Authorization header of a signed-in user, one element per
\* character: "Bearer ", then the token create_access_token made, which is
\* the base64 of {"alg":"HS256","typ":"JWT"}, a dot, the base64 of the
\* claims {"sub":"<user id>",...}, a dot and the signature
BearerScheme == << "B", "e", "a", "r", "e", "r", " " >>

JoseHeader ==
    << "e", "y", "J", "h", "b", "G", "c", "i", "O", "i", "J", "I",
       "U", "z", "I", "1", "N", "i", "I", "s", "I", "n", "R", "5",
       "c", "C", "I", "6", "I", "k", "p", "X", "V", "C", "J", "9" >>

\* the base64 of {"sub":" , the same in every token
ClaimsHead == << "e", "y", "J", "z", "d", "W", "I", "i", "O", "i", "I" >>

\* the characters that encode the user id and the other claims, and the
\* signature: they differ from user to user
ClaimsTail(u) == << "id", u, ".", "sig", u >>

access_token(u) == JoseHeader \o << "." >> \o ClaimsHead \o ClaimsTail(u)

NoHeader == << >>

\* the requests of a signed-in user, of a browser behind a proxy that
\* authenticates by cookie, of a direct client, and a health probe
BearerRequest(u) ==
    [who |-> u, path |-> "/api/v1/reports", host |-> "10.0.0.9",
     authorization |-> BearerScheme \o access_token(u),
     forwarded |-> NoHeader]

ProxiedRequest ==
    [who |-> "proxied", path |-> "/api/v1/reports", host |-> "10.0.0.9",
     authorization |-> NoHeader,
     forwarded |-> << " ", "203.0.113.7", ",", " ", "10.0.0.9" >>]

DirectRequest ==
    [who |-> "direct", path |-> "/api/v1/reports", host |-> "198.51.100.4",
     authorization |-> NoHeader, forwarded |-> NoHeader]

HealthRequest ==
    [who |-> "probe", path |-> "/health", host |-> "198.51.100.4",
     authorization |-> NoHeader, forwarded |-> NoHeader]

Unlimited == { "/", "/health", "/docs", "/redoc", "/openapi.json" }

Truncate(text, n) == SubSeq(text, 1, IF Len(text) < n THEN Len(text) ELSE n)

\* forwarded.split(',')[0]
first_field(text) ==
    IF \E i \in DOMAIN text : text[i] = ","
    THEN SubSeq(text, 1,
                (CHOOSE i \in DOMAIN text :
                    /\ text[i] = ","
                    /\ \A j \in 1..(i - 1) : text[j] # ",") - 1)
    ELSE text

\* variant: the key is the whole Authorization header
_get_key_whole(req) ==
    IF req.authorization # NoHeader
    THEN << "auth:" >> \o req.authorization
    ELSE IF req.forwarded # NoHeader
    THEN << "ip:" >> \o text_strip(first_field(req.forwarded))
    ELSE << "ip:", req.host >>

\* RateLimiter._get_key
_get_key(req) ==
    IF req.authorization # NoHeader
    THEN << "auth:" >> \o Truncate(req.authorization, KeyLength)
    ELSE IF req.forwarded # NoHeader
    THEN << "ip:" >> \o text_strip(first_field(req.forwarded))
    ELSE << "ip:", req.host >>

\* self._requests[key] of a defaultdict(list)
entries(requests, key) ==
    IF key \in DOMAIN requests THEN requests[key] ELSE << >>

\* [t for t in self._requests[key] if t > window_start]
active(times, t_now) ==
    SelectSeq(times, LAMBDA t : t > t_now - window_seconds)

\* the admission times recorded so far for a client
times_of(log, who) == IF who \in DOMAIN log THEN log[who] ELSE EmptyBag

\* variant: the limit is compared with > instead of >=
over_limit_late(times) == Len(times) > max_requests

\* len(self._requests[key]) >= self.max_requests
over_limit(times) == Len(times) >= max_requests

\* RateLimiter.get_remaining
get_remaining(times, t_now) ==
    LET left == max_requests - Len(active(times, t_now))
    IN IF left > 0 THEN left ELSE 0

Put(f, k, v) == [x \in DOMAIN f \cup { k } |-> IF x = k THEN v ELSE f[x]]

\* RateLimitMiddleware.dispatch for one request: the exempt paths pass,
\* the others are counted under their key and answered 429 when the key
\* is over the limit
dispatch(req) ==
    IF req.path \in Unlimited
    THEN /\ response' = [who |-> req.who, key |-> << >>, status |-> 200,
                         remaining |-> max_requests]
         /\ UNCHANGED << _requests, admitted >>
    ELSE LET key == _get_key(req)
             kept == active(entries(_requests, key), now)
         IN IF over_limit(kept)
            THEN /\ _requests' = Put(_requests, key, kept)
                 /\ response' = [who |-> req.who, key |-> key,
                                 status |-> 429, remaining |-> 0]
                 /\ UNCHANGED admitted
            ELSE /\ _requests' = Put(_requests, key, Append(kept, now))
                 /\ admitted' = Put(admitted, req.who,
                                    times_of(admitted, req.who)
                                        (+) SetToBag({ now }))
                 /\ response' = [who |-> req.who, key |-> key,
                                 status |-> 200,
                                 remaining |->
                                     get_remaining(Append(kept, now), now)]

\* requests a client other than the busy one may have admitted
MaxOther == 1

Others(clients) == { c \in DOMAIN admitted : c \in clients }

OthersAdmitted(clients) ==
    LET RECURSIVE Sum(_)
        Sum(S) == IF S = { } THEN 0
                  ELSE LET c == CHOOSE x \in S : TRUE
                       IN BagCardinality(admitted[c]) + Sum(S \ { c })
    IN Sum(Others(clients))

\* user u1 sends as often as it likes, the other clients a few requests
QuotaRequests ==
    { BearerRequest("u2"), ProxiedRequest, DirectRequest, HealthRequest }

Busy ==
    /\ dispatch(BearerRequest("u1"))
    /\ UNCHANGED << now, coreVars, storeVars >>

Occasional(req) ==
    /\ OthersAdmitted({ r.who : r \in QuotaRequests }) < MaxOther
    /\ dispatch(req)
    /\ UNCHANGED << now, coreVars, storeVars >>

QuotaNext ==
    \/ Busy
    \/ \E req \in QuotaRequests : Occasional(req)

QuotaSpec == Init /\ [][QuotaNext]_vars

\* the moments at which requests arrive: a window's start, middle and end
Instants == { 0, window_seconds \div 2, window_seconds }

\* time passes
Tick(t) ==
    /\ t > now
    /\ now' = t
    /\ UNCHANGED << _requests, admitted, response, coreVars, storeVars >>

\* a client behind the proxy sends as often as it likes, a direct client a
\* few requests
RateRequests == { DirectRequest }

BusyProxied ==
    /\ dispatch(ProxiedRequest)
    /\ UNCHANGED << now, coreVars, storeVars >>

OccasionalDirect(req) ==
    /\ OthersAdmitted({ r.who : r \in RateRequests }) < MaxOther
    /\ dispatch(req)
    /\ UNCHANGED << now, coreVars, storeVars >>

RateNext ==
    \/ BusyProxied
    \/ \E req \in RateRequests : OccasionalDirect(req)
    \/ \E t \in Instants : Tick(t)

RateSpec == Init /\ [][RateNext]_vars

(* ------------------------- reports.py, diagnosis.py, chat.py: the store *)
\* documents inserted into the three collections in one behaviour
MaxDocs == 3

\* the ids a request may name; ObjectIds are never reused
Ids == 1..MaxDocs

\* variant: the user_id field of a filter is not compared
matches_any_owner(doc, filter) ==
    \A f \in DOMAIN filter \ { "user_id" } :
        f \in DOMAIN doc /\ doc[f] = filter[f]

\* a document matches a filter when it has every field of the filter with
\* the filter's value
matches(doc, filter) ==
    \A f \in DOMAIN filter : f \in DOMAIN doc /\ doc[f] = filter[f]

\* collection.find(filter)
find(collection, filter) == { d \in collection : matches(d, filter) }

\* collection.find_one(filter): the first matching document, if any
find_one(collection, filter) ==
    { d \in find(collection, filter) :
          \A e \in find(collection, filter) : d._id <= e._id }

\* what collection.delete_one(filter) leaves
delete_one(collection, filter) == collection \ find_one(collection, filter)

\* what collection.delete_many(filter) leaves
delete_many(collection, filter) == collection \ find(collection, filter)

owners(docs) == { d.user_id : d \in docs }

Accessed(u, op, id, docs) ==
    [caller |-> u, op |-> op, id |-> id, owners |-> owners(docs),
     status |-> 200]

NotFound(u, op, id) ==
    [caller |-> u, op |-> op, id |-> id, owners |-> { }, status |-> 404]

\* documents inserted so far, and to be inserted by suspended handlers
Inserts ==
    inserted.reports + inserted.diagnoses + inserted.chat_sessions
        + Cardinality({ u \in Users :
                           inflight[u].op \in { "run", "send_create" } })

\* reports.py upload_report lines 54-65 and submit_text_report 98-108: the
\* caller's report is inserted
upload_report(u) ==
    /\ Inserts < MaxDocs
    /\ LET doc == [_id |-> inserted.reports + 1, user_id |-> u]
       IN /\ db_reports' = db_reports \cup { doc }
          /\ access' = Accessed(u, "upload_report", doc._id, { doc })
    /\ inserted' = [inserted EXCEPT !.reports = @ + 1]
    /\ UNCHANGED << db_diagnoses, db_chat_sessions, inflight, coreVars,
                    limiterVars >>

\* reports.py list_reports lines 117-135
list_reports(u) ==
    /\ access' = Accessed(u, "list_reports", 0,
                          find(db_reports, [user_id |-> u]))
    /\ UNCHANGED << db_reports, db_diagnoses, db_chat_sessions, inserted,
                    inflight, coreVars, limiterVars >>

\* reports.py get_report lines 138-161
get_report(u, id) ==
    /\ LET found == find_one(db_reports, [_id |-> id, user_id |-> u])
       IN access' = IF found = { } THEN NotFound(u, "get_report", id)
                    ELSE Accessed(u, "get_report", id, found)
    /\ UNCHANGED << db_reports, db_diagnoses, db_chat_sessions, inserted,
                    inflight, coreVars, limiterVars >>

\* reports.py delete_report lines 164-183: the report, then the diagnoses
\* and the chat sessions whose report_id is the report's
delete_report(u, id) ==
    /\ LET found == find_one(db_reports, [_id |-> id, user_id |-> u])
           runs_on == find(db_diagnoses, [report_id |-> id])
           chats_on == find(db_chat_sessions, [report_id |-> id])
       IN IF found = { }
          THEN /\ access' = NotFound(u, "delete_report", id)
               /\ UNCHANGED << db_reports, db_diagnoses, db_chat_sessions >>
          ELSE /\ db_reports' =
                     delete_one(db_reports, [_id |-> id, user_id |-> u])
               /\ db_diagnoses' =
                     delete_many(db_diagnoses, [report_id |-> id])
               /\ db_chat_sessions' =
                     delete_many(db_chat_sessions, [report_id |-> id])
               /\ access' = Accessed(u, "delete_report", id,
                                     found \cup runs_on \cup chats_on)
    /\ UNCHANGED << inserted, inflight, coreVars, limiterVars >>

\* diagnosis.py auto_select lines 39-61: the report is looked up and given
\* to the selector
auto_select(u, id) ==
    /\ LET found == find_one(db_reports, [_id |-> id, user_id |-> u])
       IN access' = IF found = { } THEN NotFound(u, "auto_select", id)
                    ELSE Accessed(u, "auto_select", id, found)
    /\ UNCHANGED << db_reports, db_diagnoses, db_chat_sessions, inserted,
                    inflight, coreVars, limiterVars >>

\* diagnosis.py run_diagnosis_endpoint lines 78-88: the report is looked
\* up; the handler then awaits the selector and the pipeline
run_lookup(u, id) ==
    /\ inflight[u] = NoCall
    /\ Inserts < MaxDocs
    /\ LET found == find_one(db_reports, [_id |-> id, user_id |-> u])
       IN IF found = { }
          THEN /\ access' = NotFound(u, "run", id)
               /\ UNCHANGED inflight
          ELSE /\ access' = Accessed(u, "run", id, found)
               /\ inflight' = [inflight EXCEPT ![u] =
                                  [op |-> "run", id |-> id]]
    /\ UNCHANGED << db_reports, db_diagnoses, db_chat_sessions, inserted,
                    coreVars, limiterVars >>

\* diagnosis.py run_diagnosis_endpoint lines 106-117: the pipeline has
\* returned, the diagnosis is inserted
run_store(u) ==
    /\ inflight[u].op = "run"
    /\ LET doc == [_id |-> inserted.diagnoses + 1, user_id |-> u,
                   report_id |-> inflight[u].id]
       IN /\ db_diagnoses' = db_diagnoses \cup { doc }
          /\ access' = Accessed(u, "run_store", doc._id, { doc })
    /\ inserted' = [inserted EXCEPT !.diagnoses = @ + 1]
    /\ inflight' = [inflight EXCEPT ![u] = NoCall]
    /\ UNCHANGED << db_reports, db_chat_sessions, coreVars, limiterVars >>

\* diagnosis.py diagnosis_history lines 138-157
diagnosis_history(u) ==
    /\ access' = Accessed(u, "diagnosis_history", 0,
                          find(db_diagnoses, [user_id |-> u]))
    /\ UNCHANGED << db_reports, db_diagnoses, db_chat_sessions, inserted,
                    inflight, coreVars, limiterVars >>

\* diagnosis.py get_diagnosis lines 160-185 (download_diagnosis_pdf lines
\* 188-222 makes the same lookup)
get_diagnosis(u, id) ==
    /\ LET found == find_one(db_diagnoses, [_id |-> id, user_id |-> u])
       IN access' = IF found = { } THEN NotFound(u, "get_diagnosis", id)
                    ELSE Accessed(u, "get_diagnosis", id, found)
    /\ UNCHANGED << db_reports, db_diagnoses, db_chat_sessions, inserted,
                    inflight, coreVars, limiterVars >>

\* diagnosis.py delete_diagnosis lines 225-244: the diagnosis, then the
\* chat sessions whose diagnosis_id is the diagnosis's
delete_diagnosis(u, id) ==
    /\ LET found == find_one(db_diagnoses, [_id |-> id, user_id |-> u])
           chats_on == find(db_chat_sessions, [diagnosis_id |-> id])
       IN IF found = { }
          THEN /\ access' = NotFound(u, "delete_diagnosis", id)
               /\ UNCHANGED << db_diagnoses, db_chat_sessions >>
          ELSE /\ db_diagnoses' =
                     delete_one(db_diagnoses, [_id |-> id, user_id |-> u])
               /\ db_chat_sessions' =
                     delete_many(db_chat_sessions, [diagnosis_id |-> id])
               /\ access' = Accessed(u, "delete_diagnosis", id,
                                     found \cup chats_on)
    /\ UNCHANGED << db_reports, inserted, inflight, coreVars, limiterVars >>

\* chat.py send_message lines 25-47: the diagnosis is looked up, then the
\* session of the caller for it
send_lookup(u, id) ==
    /\ inflight[u] = NoCall
    /\ Inserts < MaxDocs
    /\ LET found == find_one(db_diagnoses, [_id |-> id, user_id |-> u])
           session == find_one(db_chat_sessions,
                               [diagnosis_id |-> id, user_id |-> u])
       IN IF found = { }
          THEN /\ access' = NotFound(u, "send_message", id)
               /\ UNCHANGED inflight
          ELSE /\ access' = Accessed(u, "send_message", id,
                                     found \cup session)
               /\ inflight' =
                     [inflight EXCEPT ![u] =
                         IF session = { }
                         THEN [op |-> "send_create", id |-> id]
                         ELSE [op |-> "send_push",
                               id |-> (CHOOSE c \in session : TRUE)._id]]
    /\ UNCHANGED << db_reports, db_diagnoses, db_chat_sessions, inserted,
                    coreVars, limiterVars >>

\* chat.py send_message lines 49-58: no session was found, one is inserted
send_create(u) ==
    /\ inflight[u].op = "send_create"
    /\ LET doc == [_id |-> inserted.chat_sessions + 1, user_id |-> u,
                   diagnosis_id |-> inflight[u].id]
       IN /\ db_chat_sessions' = db_chat_sessions \cup { doc }
          /\ access' = Accessed(u, "send_create", doc._id, { doc })
          /\ inflight' = [inflight EXCEPT ![u] =
                             [op |-> "send_push", id |-> doc._id]]
    /\ inserted' = [inserted EXCEPT !.chat_sessions = @ + 1]
    /\ UNCHANGED << db_reports, db_diagnoses, coreVars, limiterVars >>

\* chat.py send_message lines 74-86: the two turns are pushed into the
\* session with the _id the handler holds
send_push(u) ==
    /\ inflight[u].op = "send_push"
    /\ access' = Accessed(u, "send_push", inflight[u].id,
                          find(db_chat_sessions, [_id |-> inflight[u].id]))
    /\ inflight' = [inflight EXCEPT ![u] = NoCall]
    /\ UNCHANGED << db_reports, db_diagnoses, db_chat_sessions, inserted,
                    coreVars, limiterVars >>

\* chat.py get_chat_history lines 89-112
get_chat_history(u, id) ==
    /\ access' = Accessed(u, "get_chat_history", id,
                          find_one(db_chat_sessions,
                                   [diagnosis_id |-> id, user_id |-> u]))
    /\ UNCHANGED << db_reports, db_diagnoses, db_chat_sessions, inserted,
                    inflight, coreVars, limiterVars >>

\* chat.py delete_chat lines 115-131
delete_chat(u, id) ==
    /\ LET found == find_one(db_chat_sessions,
                             [diagnosis_id |-> id, user_id |-> u])
       IN IF found = { }
          THEN /\ access' = NotFound(u, "delete_chat", id)
               /\ UNCHANGED db_chat_sessions
          ELSE /\ db_chat_sessions' =
                     delete_one(db_chat_sessions,
                                [diagnosis_id |-> id, user_id |-> u])
               /\ access' = Accessed(u, "delete_chat", id, found)
    /\ UNCHANGED << db_reports, db_diagnoses, inserted, inflight, coreVars,
                    limiterVars >>

StoreNext ==
    \/ \E u \in Users : upload_report(u)
    \/ \E u \in Users : list_reports(u)
    \/ \E u \in Users, id \in Ids : get_report(u, id)
    \/ \E u \in Users, id \in Ids : delete_report(u, id)
    \/ \E u \in Users, id \in Ids : auto_select(u, id)
    \/ \E u \in Users, id \in Ids : run_lookup(u, id)
    \/ \E u \in Users : run_store(u)
    \/ \E u \in Users : diagnosis_history(u)
    \/ \E u \in Users, id \in Ids : get_diagnosis(u, id)
    \/ \E u \in Users, id \in Ids : delete_diagnosis(u, id)
    \/ \E u \in Users, id \in Ids : send_lookup(u, id)
    \/ \E u \in Users : send_create(u)
    \/ \E u \in Users : send_push(u)
    \/ \E u \in Users, id \in Ids : get_chat_history(u, id)
    \/ \E u \in Users, id \in Ids : delete_chat(u, id)

StoreSpec == Init /\ [][StoreNext]_vars

TypeOK ==
    /\ pc \in { "idle", "selecting", "gathering", "synthesizing", "done",
                "rejected", "failed" }
    /\ runs \in 0..MaxRuns
    /\ Len(worker) = Len(futures)
    /\ Len(completed) <= Len(futures)

(* ================================================================ claims *)
Positions == 1..Len(selected_specialists)

UnknownRequested ==
    request.given /\ \E i \in DOMAIN request.names :
                        request.names[i] \notin SPECIALISTS

\* C1: a run over a non-empty subset of registry names does not fail, and
\* the analyzer results it returns are exactly as many as the names it was
\* asked to run (repeated names counted), whichever workers failed and in
\* whatever order they finished.
C1_NoAnalyzerDropped ==
    /\ pc = "done" =>
          /\ Len(result.specialist_reports) = Len(selected_specialists)
          /\ Len(selected_specialists) >= 1
          /\ (request.given /\ request.names # << >>)
                => selected_specialists = request.names
    /\ (pc = "failed" \/ (pc = "rejected" /\ request.lookup = "found"))
          => UnknownRequested

C1_Witness ==
    /\ pc = "done"
    /\ request.names = << "Cardiologist", "Cardiologist" >>
    /\ ~remote[1].ok
    /\ remote[2].ok
    /\ completed = << 2, 1 >>
    /\ Len(result.specialist_reports) = 2

\* C2: the i-th analyzer result, as collected and as returned, carries the
\* name of the i-th requested analyzer, whatever the completion order.
C2_RequestOrder ==
    /\ pc \in { "synthesizing", "done" } =>
          /\ DOMAIN specialist_reports = Positions
          /\ \A i \in Positions :
                specialist_reports[i].specialist_name = selected_specialists[i]
    /\ pc = "done" =>
          /\ DOMAIN result.specialist_reports = Positions
          /\ \A i \in Positions :
                result.specialist_reports[i].specialist_name
                    = selected_specialists[i]

C2_Witness ==
    /\ pc = "done"
    /\ selected_specialists = << "Cardiologist", "General Practitioner" >>
    /\ completed = << 2, 1 >>
    /\ result.specialist_reports[1].specialist_name = "Cardiologist"
    /\ result.specialist_reports[2].specialist_name = "General Practitioner"

\* C3: within a run _run_team_diagnosis is invoked at most once, and when it
\* has been invoked every worker of the run has exited (returned a report
\* or raised).
C3_AggregatorAfterBarrier ==
    /\ teamCalls <= 1
    /\ teamInvokes <= 1
    /\ teamCalls >= 1 =>
          /\ DOMAIN worker = Positions
          /\ \A i \in Positions : worker[i] = "exited"
          /\ Len(completed) = Len(selected_specialists)

C3_Witness ==
    /\ pc = "synthesizing"
    /\ teamCalls = 1
    /\ Len(worker) = 2
    /\ ~remote[1].ok
    /\ completed = << 2, 1 >>

\* C4: a worker whose remote call raised produces, under its own name, the
\* text "Error: Could not generate report. <cause>"; the run does not fail
\* because of it, and every sibling whose call returned keeps its genuine
\* (sanitized) output.
C4_FailureContained ==
    /\ \A i \in DOMAIN futures :
          futures[i].state # "pending" =>
             /\ futures[i].state = "finished"
             /\ futures[i].result.specialist_name = selected_specialists[i]
             /\ futures[i].result.report_content =
                   IF remote[i].ok THEN _sanitize_text(remote[i].text)
                   ELSE ErrorPrefix \o remote[i].text
    /\ pc = "done" =>
          \A i \in Positions :
             result.specialist_reports[i].report_content =
                IF remote[i].ok THEN _sanitize_text(remote[i].text)
                ELSE ErrorPrefix \o remote[i].text
    /\ (\E i \in DOMAIN remote : worker[i] = "exited" /\ ~remote[i].ok)
          => pc \in { "gathering", "synthesizing", "done" }

C4_Witness ==
    /\ pc = "done"
    /\ Len(selected_specialists) = 2
    /\ remote[1] = Raised(<< "timeout" >>)
    /\ remote[2] = Returned(<< "findings" >>)
    /\ result.specialist_reports[1].report_content
          = << "Error: Could not generate report. ", "timeout" >>
    /\ result.specialist_reports[2].report_content = << "findings" >>

\* C5 (as stated): every analyzer result tells a failed call from a
\* successful one: no entry produced by a failed call equals an entry
\* produced by a successful call.
C5_FailedDistinguishable ==
    \A i, j \in DOMAIN futures :
        (/\ futures[i].state = "finished"
         /\ futures[j].state = "finished"
         /\ ~remote[i].ok
         /\ remote[j].ok)
        => futures[i].result # futures[j].result

\* C5 (amended): an analyzer result has the two fields specialist_name and
\* report_content and no outcome flag; after a failed call the text begins
\* with "Error: Could not generate report. ", after a successful call it is
\* the sanitized model text, so a failed entry differs from every successful
\* entry whose model text does not itself begin with that prefix.
C5_PlaceholderOnly ==
    \A i \in DOMAIN futures :
        futures[i].state = "finished" =>
           /\ DOMAIN futures[i].result = { "specialist_name", "report_content" }
           /\ ~remote[i].ok => IsPrefix(ErrorPrefix, futures[i].result.report_content)
           /\ \A j \in DOMAIN futures :
                 (/\ futures[j].state = "finished"
                  /\ ~remote[i].ok
                  /\ remote[j].ok
                  /\ ~IsPrefix(ErrorPrefix, remote[j].text))
                 => futures[i].result.report_content
                       # futures[j].result.report_content

C5_Witness ==
    /\ pc = "gathering"
    /\ Len(futures) = 2
    /\ futures[1].state = "finished"
    /\ futures[2].state = "finished"
    /\ remote[1] = Raised(<< "timeout" >>)
    /\ remote[2] = Returned(<< "see", "{", "U+2014", "}" >>)

\* C6: when the requested subset names an analyzer that is not in the
\* registry, the request is rejected as "Invalid specialists" and no worker
\* has been submitted and no remote call (selector, analyzer, synthesis) has
\* been made for it.
C6_UnknownRejectedFirst ==
    UnknownRequested =>
        /\ pc = "rejected"
        /\ http = [status |-> 400, detail |-> "Invalid specialists"]
        /\ worker = << >>
        /\ futures = << >>
        /\ calls = << >>
        /\ selectorCalls = 0
        /\ teamCalls = 0
        /\ teamInvokes = 0

C6_Witness ==
    /\ pc = "rejected"
    /\ request.names = << "Cardiologist", "Astrologer" >>
    /\ http.status = 400

\* C7 (as stated): a request whose job set is the empty list fails, and it
\* fails without any worker, any remote call or the aggregator.
C7_EmptyFails ==
    (request.given /\ request.names = << >>) =>
        /\ pc \in { "rejected", "failed" }
        /\ selectorCalls = 0
        /\ worker = << >>
        /\ teamCalls = 0

\* C7 (amended): a run on a found report fails as a whole only when the
\* supplied subset names an unknown analyzer; an empty job set does not
\* fail: like an absent one it makes exactly one selector call and the run
\* goes on with the selected names; a non-empty set of registry names is
\* never rejected and never fails.
C7_FailsOnlyOnUnknown ==
    /\ (request.lookup = "found" /\ pc \in { "rejected", "failed" })
          => UnknownRequested
    /\ (request.given /\ request.names = << >>) =>
          /\ pc \in { "selecting", "gathering", "synthesizing", "done" }
          /\ selectorCalls = 1
    /\ (request.given /\ request.names # << >> /\ ~UnknownRequested) =>
          /\ pc \in { "gathering", "synthesizing", "done" }
          /\ selectorCalls = 0
          /\ selected_specialists = request.names

C7_Witness ==
    /\ pc = "done"
    /\ request.given
    /\ request.names = << >>
    /\ selectorCalls = 1
    /\ Len(result.specialist_reports) >= 1

\* C8: when the synthesis call raises, the run still answers: the final
\* report is "Error generating final diagnosis: <cause>" and the analyzer
\* results returned are the ones the workers produced, same count, same
\* order, same content.
C8_SynthesisFailureKeepsReports ==
    (pc = "done" /\ ~teamRemote.ok) =>
        /\ http.status = 200
        /\ result.final_diagnosis = TeamErrorPrefix \o teamRemote.text
        /\ DOMAIN result.specialist_reports = Positions
        /\ \A i \in Positions :
              result.specialist_reports[i] = futures[i].result
        /\ result.specialist_reports = specialist_reports

C8_Witness ==
    /\ pc = "done"
    /\ teamRemote = Raised(<< "timeout" >>)
    /\ Len(result.specialist_reports) = 2
    /\ ~remote[2].ok

\* first offset >= from at which t occurs in d, or 0 when there is none
RECURSIVE Find(_, _, _)
Find(d, t, from) ==
    IF from + Len(t) - 1 > Len(d) THEN 0
    ELSE IF OccursAt(t, d, from) THEN from
    ELSE Find(d, t, from + 1)

\* the texts of items occur in d one after the other, in this order
RECURSIVE InOrderFrom(_, _, _)
InOrderFrom(d, items, from) ==
    IF items = << >> THEN TRUE
    ELSE LET p == Find(d, Head(items), from)
         IN p # 0 /\ InOrderFrom(d, Tail(items), p + Len(Head(items)))

\* name 1, text 1, name 2, text 2, ...
NamesAndTexts(reports) ==
    Flatten([ i \in 1..Len(reports) |->
                << << reports[i].specialist_name >>,
                   reports[i].report_content >> ])

\* C9: the directive sent by _run_team_diagnosis contains, for each analyzer
\* result in input order, the analyzer's name followed by its result text.
C9_DirectiveEmbedsReports ==
    pc \in { "synthesizing", "done" } =>
        InOrderFrom(prompt_text, NamesAndTexts(specialist_reports), 1)

Distinct(s) == \A i, j \in DOMAIN s : i # j => s[i] # s[j]

\* C10: the list auto_select_specialists returns has between 2 and 5 names
\* and no name twice.
C10_TwoToFiveDistinct ==
    (selectorCalls = 1 /\ pc # "selecting") =>
        /\ Len(selected_specialists) >= 2
        /\ Len(selected_specialists) <= 5
        /\ Distinct(selected_specialists)

(* ------------------------------------------------------- Auto-Selector *)
\* auto_select_specialists has returned; selected_specialists is its list
Selected == selectorCalls = 1 /\ pc # "selecting"

\* the model's answer parsed to a list (json.loads succeeded, iterable)
ParsedOK ==
    /\ selectorRemote.ok
    /\ json_loads_ok(unfence(selectorRemote.text))
    /\ iterable(json_loads(unfence(selectorRemote.text)))

\* the model's list with the names outside the registry removed
ValidNames ==
    SelectSeq(json_loads(unfence(selectorRemote.text)).v,
              LAMBDA n : n \in Range(AVAILABLE_SPECIALISTS))

Take5(q) == SubSeq(q, 1, IF Len(q) < 5 THEN Len(q) ELSE 5)

\* C11: whatever the model answered and however the call failed, the list
\* auto_select_specialists returns is non-empty and holds registry names only.
C11_NonEmptyRegistryNames ==
    Selected =>
        /\ selected_specialists # << >>
        /\ \A i \in DOMAIN selected_specialists :
              selected_specialists[i] \in Range(AVAILABLE_SPECIALISTS)

C11_Witness ==
    /\ Selected
    /\ selectorRemote = Returned(<< JsonArray(<< "Astrologer", "Astrologer" >>) >>)
    /\ selected_specialists = << "General Practitioner" >>

C13_FilteredFirstFive ==
    (Selected /\ ParsedOK) => selected_specialists = Take5(ValidNames)

\* C13 (amended): the first 5 valid names of the model's list, in the
\* model's order, are the beginning of the selection result; they are the
\* whole result whenever at least 2 valid names remain (so more than 5
\* valid names yield exactly the first 5); with fewer than 2 the only
\* addition is the appended default.
C13_OrderKeptCutAtFive ==
    (Selected /\ ParsedOK) =>
        /\ IsPrefix(Take5(ValidNames), selected_specialists)
        /\ Len(ValidNames) >= 2 => selected_specialists = Take5(ValidNames)
        /\ Len(ValidNames) < 2 =>
              \A i \in (Len(ValidNames) + 1)..Len(selected_specialists) :
                 /\ i = Len(ValidNames) + 1
                 /\ selected_specialists[i] = "General Practitioner"

C13_Witness ==
    /\ Selected
    /\ selectorRemote
          = Returned(<< JsonArray(SubSeq(AVAILABLE_SPECIALISTS, 1, 7)) >>)
    /\ selected_specialists
          = << "Cardiologist", "Psychologist", "Pulmonologist",
               "Neurologist", "Endocrinologist" >>

\* C14: when the selection call raises, or its answer does not parse to a
\* list, auto_select_specialists still returns: the fixed triple
\* Cardiologist, Psychologist, Pulmonologist; the run goes on with it.
C14_FallbackTriple ==
    (Selected /\ ~ParsedOK) =>
        /\ selected_specialists
              = << "Cardiologist", "Psychologist", "Pulmonologist" >>
        /\ pc \in { "gathering", "synthesizing", "done" }

C14_Witness ==
    /\ Selected
    /\ selectorRemote = Returned(<< Tok("I cannot help with that") >>)
    /\ selected_specialists
          = << "Cardiologist", "Psychologist", "Pulmonologist" >>
    /\ pc = "gathering"

(* ------------------------------------------------------------------ chat *)
Occurs(d, t) == Find(d, t, 1) # 0

Contents(turns) == [ i \in 1..Len(turns) |-> turns[i].content ]

\* handler h has built the directive of its exchange
Prompted(h) == chat[h].pc \in { "generating", "done" }

\* C15: the directive of the next exchange contains the last 10 turns of
\* the history the handler read (all of them when there are at most 10), in
\* order and before the new question, and no turn older than those.
C15_LastTenTurnsOnly ==
    \A h \in Handlers :
        Prompted(h) =>
            LET hist == chat[h].history
                first == IF Len(hist) <= 10 THEN 1 ELSE Len(hist) - 9
            IN /\ \A i \in 1..(first - 1) :
                     ~Occurs(chat[h].prompt, hist[i].content)
               /\ InOrderFrom(chat[h].prompt,
                              Contents(SubSeq(hist, first, Len(hist)))
                                  \o << chat[h].message >>,
                              1)

C15_Witness ==
    \E h \in Handlers :
        /\ chat[h].pc = "generating"
        /\ Len(chat[h].history) = 12
        /\ ~Occurs(chat[h].prompt, << "p1" >>)
        /\ ~Occurs(chat[h].prompt, << "r1" >>)
        /\ Occurs(chat[h].prompt, << "p2" >>)
        /\ Occurs(chat[h].prompt, << "a1" >>)

\* C16: when the chat model call raises, generate_chat_response returns the
\* apology text naming the error, and the request is answered normally
\* (status 200, the two turns stored), not failed.
C16_ChatFailureDegrades ==
    \A h \in Handlers :
        (chat[h].pc = "done" /\ ~chat[h].remote.ok) =>
            /\ chat[h].answer =
                  << "I apologize, but I encountered an error processing your question. Please try again. (Error: " >>
                      \o chat[h].remote.text \o << ")" >>
            /\ chat[h].status = 200

C16_Witness ==
    \E h \in Handlers :
        /\ chat[h].pc = "done"
        /\ chat[h].remote = Raised(<< "e2" >>)
        /\ chat[h].status = 200

\* the turns of the conversation as send_message and get_chat_history read
\* them: the messages of the session find_one returns
Conversation(sessions) ==
    IF find_session(sessions) = 0 THEN << >>
    ELSE sessions[find_session(sessions)].messages

Completes(h) == chat[h].pc = "generating" /\ chat'[h].pc = "done"

\* C17: the conversation is append-only: a step that completes an exchange
\* adds exactly two turns to it, the question immediately followed by the
\* answer (the error text included), every earlier turn staying where it
\* was, also when exchanges overlap; no other step changes it.
C17_Step ==
    /\ IsPrefix(Conversation(chat_sessions), Conversation(chat_sessions'))
    /\ \A h \in Handlers :
          Completes(h) =>
              Conversation(chat_sessions') =
                  Conversation(chat_sessions)
                      \o << UserTurn(chat[h].message),
                            AssistantTurn(chat'[h].answer) >>
    /\ (\A h \in Handlers : ~Completes(h)) =>
          Conversation(chat_sessions') = Conversation(chat_sessions)

C17_AppendOnly == [][C17_Step]_vars

\* two overlapping first exchanges have both completed with status 200, and
\* the conversation holds the turns of only one of them
C17_LostExchange ==
    /\ chat[1].pc = "done" /\ chat[1].status = 200
    /\ chat[2].pc = "done" /\ chat[2].status = 200
    /\ chat[1].session # chat[2].session
    /\ Len(Conversation(chat_sessions)) = 2

IsSuffix(t, d) ==
    Len(t) <= Len(d) /\ SubSeq(d, Len(d) - Len(t) + 1, Len(d)) = t

\* handler h has built the context text of its exchange
HasContext(h) == chat[h].pc \in { "creating", "generating", "done" }

\* C19: the chat context built from the stored diagnosis contains the name
\* and then the text of every specialist report, in the stored order of
\* the reports, then the final diagnosis, which ends the context.
C19_ContextIsReportsThenFinal ==
    \A h \in Handlers :
        HasContext(h) =>
            /\ InOrderFrom(chat[h].context,
                           NamesAndTexts(diagnosis.specialist_reports)
                               \o << diagnosis.final_diagnosis >>,
                           1)
            /\ IsSuffix(diagnosis.final_diagnosis, chat[h].context)

C19_Witness ==
    \E h \in Handlers :
        /\ chat[h].pc = "generating"
        /\ Len(diagnosis.specialist_reports) = 2
        /\ Occurs(chat[h].context, << "General Practitioner" >>)
        /\ IsSuffix(<< "final", "-", "-", "report" >>, chat[h].context)

(* ------------------------------------------------------------ invocations *)
\* C20: a run invokes the model at most once per requested analyzer and at
\* most once for the team agent; once the barrier has been passed every
\* requested analyzer has been invoked exactly once, whether its call or a
\* sibling's returned or raised, and the team agent exactly once.
C20_OneInvocationEach ==
    /\ \A i \in DOMAIN calls : calls[i] <= 1
    /\ teamInvokes <= 1
    /\ pc \in { "synthesizing", "done" } =>
          /\ DOMAIN calls = Positions
          /\ \A i \in Positions : calls[i] = 1
          /\ teamInvokes = 1
    /\ pc = "gathering" => teamInvokes = 0

\* a worker failed after a sibling had succeeded, another run is done
C20_Witness ==
    /\ pc = "done"
    /\ Len(selected_specialists) = 2
    /\ completed = << 2, 1 >>
    /\ remote[2].ok
    /\ ~remote[1].ok
    /\ ~teamRemote.ok
    /\ calls = << 1, 1 >>
    /\ teamInvokes = 1

(* ------------------------------------------------------------ idempotence *)
\* the run that is done was asked for the same analyzers as a run recorded
\* earlier and the model answered each call as it did then
SameAsPrevious ==
    /\ pc = "done"
    /\ previous.valid
    /\ previous.names = selected_specialists
    /\ previous.remote = remote
    /\ previous.teamRemote = teamRemote

\* C18: a run that is asked for the same analyzers as an earlier run, and
\* whose model calls are answered as they were then, returns the same
\* result (same reports in the same order, same final diagnosis), in
\* whatever order its workers finished and whatever ran in between.
C18_SameInputsSameResult == SameAsPrevious => result = previous.result

\* same request, one call failed in both runs, workers finished in the
\* opposite order
C18_Witness ==
    /\ SameAsPrevious
    /\ selected_specialists = << "Cardiologist", "General Practitioner" >>
    /\ ~remote[1].ok
    /\ remote[2].ok
    /\ previous.completed = << 1, 2 >>
    /\ completed = << 2, 1 >>
    /\ result = previous.result
    /\ Len(result.specialist_reports) = 2

(* ------------------------------------------------------ strict parsing *)
\* the model's answer, code fence removed, is one JSON list
IsJsonList ==
    /\ selectorRemote.ok
    /\ json_loads_ok(unfence(selectorRemote.text))
    /\ json_loads(unfence(selectorRemote.text)).k = "array"

\* C21: an answer that is not a JSON list (of strings), code fence
\* removed, is a parse failure: the selection result is then the fixed
\* fallback triple.
C21_OnlyListsAccepted ==
    (Selected /\ ~IsJsonList) => selected_specialists = FallbackSpecialists

\* a JSON object whose keys are names was answered and its keys were taken
\* as the selection
C21_ObjectAccepted ==
    /\ Selected
    /\ selectorRemote
          = Returned(<< JsonObject(<< "Cardiologist", "Astrologer" >>) >>)
    /\ selected_specialists = << "Cardiologist", "General Practitioner" >>

(* ------------------------------------------------- selection trigger *)
\* the request reached the report and the report was found
ReportFound == pc # "idle" /\ request.lookup = "found"

Dispatched == pc \in { "gathering", "synthesizing", "done" }

\* C22 (as stated): the selector is invoked if and only if the caller
\* supplied no subset; a supplied subset means no selection call, and what
\* is dispatched is the supplied subset.
C22_SelectorIffAbsent ==
    ReportFound =>
        /\ selectorCalls >= 1 <=> ~request.given
        /\ (request.given /\ Dispatched) =>
              selected_specialists = request.names

\* C22 (amended): the selector is invoked, once, if and only if the caller
\* supplied no subset or an empty one; for a non-empty supplied subset no
\* selection call is made, and either one worker per supplied name is
\* submitted, in the supplied order, or the request is rejected for an
\* unknown name with nothing submitted. A request that does not reach a
\* report makes no selection call.
C22_SelectorIffNoneOrEmpty ==
    /\ ReportFound =>
          /\ selectorCalls
                = (IF ~request.given \/ request.names = << >> THEN 1 ELSE 0)
          /\ (request.given /\ request.names # << >>) =>
                /\ Dispatched \/ pc = "rejected"
                /\ Dispatched =>
                      /\ selected_specialists = request.names
                      /\ Len(worker) = Len(request.names)
                /\ pc = "rejected" => UnknownRequested /\ worker = << >>
    /\ ~ReportFound => selectorCalls = 0

C22_Witness ==
    /\ pc = "done"
    /\ request.given
    /\ request.names = << "General Practitioner", "Cardiologist" >>
    /\ selectorCalls = 0
    /\ selected_specialists = request.names
    /\ calls = << 1, 1 >>

(* ------------------------------------------------------- sampling *)
Sites(cs) == { c.site : c \in cs }

\* C23 (as stated): every model.invoke call made, by an analyzer, the team
\* agent, the selector or the chat, is made on a model built with
\* temperature 0.
C23_AllCallsTemperatureZero ==
    \A c \in PortCalls : c.options.temperature = 0

\* C23 (amended): the analyzer calls, the synthesis call and the selection
\* call are made with temperature 0; the chat call is made with
\* temperature 0.3.
C23_ZeroExceptChat ==
    \A c \in PortCalls :
        c.options.temperature = (IF c.site = "chat" THEN 3 ELSE 0)

\* a run that selected its analyzers is done while a chat call is in flight
C23_Witness ==
    /\ pc = "done"
    /\ Sites(PortCalls) = { "analyzer", "team", "selector", "chat" }

(* ------------------------------------------------------- outer template *)
\* the fixed text of the team template before and after its placeholder
TemplateHead == << "NL", "TEAM_PROMPT_BODY", "NL" >>
TemplateTail == << "NL" >>

\* C24: whatever the analyzers answered (braces, the placeholder token
\* itself), the directive is the fixed head of the template, then the
\* reports section, once, then the fixed tail; and the run does not fail
\* while building it.
C24_TemplateIntact ==
    /\ pc \in { "synthesizing", "done" } =>
          prompt_text = TemplateHead \o reports_section(specialist_reports)
                            \o TemplateTail
    /\ TEAM_PROMPT_TEMPLATE
          = TemplateHead \o << "{", "specialist_reports_section", "}" >>
                \o TemplateTail
    /\ pc # "failed"

\* a report whose text is the placeholder token, another with braces
C24_Witness ==
    /\ pc = "synthesizing"
    /\ Len(specialist_reports) = 2
    /\ remote[1] = Returned(<< "{", "specialist_reports_section", "}" >>)
    /\ remote[2] = Returned(<< "}", "text", "{" >>)
    /\ Occurs(prompt_text,
              << "{", "{", "specialist_reports_section", "}", "}" >>)

(* --------------------------------------------------------- rate limits *)
\* how many times of bag b lie in the set T
CountIn(b, T) ==
    LET RECURSIVE Sum(_)
        Sum(S) == IF S = { } THEN 0
                  ELSE LET t == CHOOSE x \in S : TRUE
                       IN b[t] + Sum(S \ { t })
    IN Sum(BagToSet(b) \cap T)

InWindow(a) == { t \in Instants : a <= t /\ t < a + window_seconds }

\* the requests of a client admitted within the window that ends now
OwnAdmitted(who) ==
    CountIn(times_of(admitted, who),
            { t \in Instants : t > now - window_seconds /\ t <= now })

\* C25: a client is answered 429 only when its own requests have used up
\* the quota of the current window: requests of another user never cause
\* the rejection.
C25_OwnQuota ==
    response.status = 429 => OwnAdmitted(response.who) >= max_requests

\* user u2 is rejected on its first request after 60 requests of user u1
C25_OtherUserRejected ==
    /\ response.who = "u2"
    /\ response.status = 429
    /\ "u2" \notin DOMAIN admitted
    /\ BagCardinality(admitted["u1"]) = 60

\* the key of every client that is counted
KeyOf ==
    [ r \in { BearerRequest(u) : u \in Users }
                \cup { ProxiedRequest, DirectRequest } |-> _get_key(r) ]

\* the requests admitted under key k at a time t with a <= t < a + window
WindowCount(k, a) ==
    LET RECURSIVE Sum(_)
        Sum(S) ==
            IF S = { } THEN 0
            ELSE LET r == CHOOSE x \in S : TRUE
                 IN CountIn(times_of(admitted, r.who), InWindow(a))
                        + Sum(S \ { r })
    IN Sum({ r \in DOMAIN KeyOf : KeyOf[r] = k })

\* C27: for every key, the requests admitted within any window of
\* window_seconds are at most max_requests; a call that is rejected
\* records no timestamp; get_remaining is never negative.
C27_Windows ==
    /\ \A k \in DOMAIN _requests, a \in Instants :
          WindowCount(k, a) <= max_requests
    /\ response.remaining >= 0
    /\ \A k \in DOMAIN _requests : get_remaining(_requests[k], now) >= 0

C27_Rejection ==
    response'.status = 429 =>
        /\ admitted' = admitted
        /\ \A k \in DOMAIN _requests' :
              \/ _requests'[k] = active(entries(_requests, k), now)
              \/ _requests'[k] = entries(_requests, k)

C27_WindowNeverExceeded == []C27_Windows /\ [][C27_Rejection]_vars

\* the window has slid: the requests of its first half have expired, those
\* of its second half still count, and the key is over the limit again
C27_Witness ==
    /\ now = window_seconds
    /\ response.who = "proxied"
    /\ response.status = 429
    /\ admitted["proxied"] = (0 :> 30) @@ (30 :> 30) @@ (60 :> 30)
    /\ Len(_requests[_get_key(ProxiedRequest)]) = max_requests

\* the chat session documents stored for the pair (user, diagnosis) of the
\* conversation that lookups do not return
Unreturned(sessions) ==
    { i \in DOMAIN sessions : i # find_session(sessions) }

\* C28: for the (user, diagnosis) pair at most one chat session document
\* exists at any time, also when two send_message requests interleave
\* between the lookup and the creation, and no turns are stored in a session
\* that lookups do not return.
C28_OneSessionPerPair ==
    /\ Len(chat_sessions) <= 1
    /\ \A i \in Unreturned(chat_sessions) : chat_sessions[i].messages = << >>

\* a second document of the pair holds the turns of a completed exchange
C28_OrphanTurns ==
    \E i \in Unreturned(chat_sessions) : chat_sessions[i].messages # << >>

(* ------------------------------------------- auto-selected dispatch *)
\* the run endpoint was called without a subset, the report was found and
\* the Auto-Selector has produced its list
AutoSelected ==
    /\ ReportFound
    /\ ~request.given
    /\ pc # "selecting"

\* [r["specialist_name"] for r in reports]
ReportNames(reports) ==
    [ i \in DOMAIN reports |-> reports[i].specialist_name ]

\* C29: when the run endpoint is called without a subset, the list the
\* Auto-Selector produces is non-empty and passes the registry validation,
\* so the run is neither rejected for invalid specialists nor failed by an
\* empty dispatch or an unknown worker name, and once the run has completed
\* the stored selected_specialists equals, position by position, the names
\* of the stored specialist_reports.
C29_AutoListRunsAndMatches ==
    AutoSelected =>
        /\ selected_specialists # << >>
        /\ invalid(selected_specialists) = << >>
        /\ pc \notin { "rejected", "failed" }
        /\ http.detail \notin { "Invalid specialists", "ValueError", "KeyError" }
        /\ pc = "done" =>
              ReportNames(result.specialist_reports) = selected_specialists

\* the selector named an unknown specialist and a registered one; the run
\* completed on the filtered, padded list
C29_Witness ==
    /\ AutoSelected
    /\ pc = "done"
    /\ selectorRemote.ok
    /\ selected_specialists = << "Psychologist", "General Practitioner" >>
    /\ ReportNames(result.specialist_reports) = selected_specialists

(* ------------------------------------------------------ report deletion *)
\* C26: a step in which delete_report removes a report leaves no diagnosis
\* run on that report and no chat session belonging to one of those
\* diagnoses.
C26_Step ==
    \A r \in db_reports \ db_reports' :
        LET runs_on == { d \in db_diagnoses : d.report_id = r._id }
        IN /\ \A d \in db_diagnoses' : d.report_id # r._id
           /\ \A c \in db_chat_sessions' :
                 c.diagnosis_id \notin { d._id : d \in runs_on }

C26_DeleteReportCascades == [][C26_Step]_vars

\* delete_report has succeeded and a chat session of a diagnosis that no
\* longer exists is still stored
C26_SessionLeft ==
    /\ access.op = "delete_report"
    /\ access.status = 200
    /\ \E c \in db_chat_sessions :
          \A d \in db_diagnoses : d._id # c.diagnosis_id

(* ------------------------------------------------------ user isolation *)
\* C30: whatever uploads, runs, chats and deletes the users have made, the
\* documents a request reads, uses as diagnosis or chat input, updates or
\* deletes all carry the user_id of the authenticated caller.
C30_OwnDocumentsOnly == access.owners \subseteq { access.caller }

\* both users have stored a report, and a user asking for the report of the
\* other one is answered 404 with no document
C30_Witness ==
    /\ access.op = "get_report"
    /\ access.status = 404
    /\ access.caller = "u2"
    /\ \E r \in db_reports : r._id = access.id /\ r.user_id = "u1"
    /\ \E r \in db_reports : r.user_id = "u2"

====
